---- MODULE Spec2Model ----
(***************************************************************************)
(* Model of the real-estate listing site (src/main.py, src/database.py):   *)
(* the persisted tables, the session cookie, the uploaded files and one    *)
(* action per request handler.  Text that the code inspects character by   *)
(* character (paths, file names, CSV photo lists, content types, Location  *)
(* names) is a sequence of one-character strings; text that the code only  *)
(* stores and copies (titles, names, e-mail addresses) is a TLA+ string.   *)
(***************************************************************************)
EXTENDS Integers, Sequences, FiniteSets, TLC

(***************************************************************************)
(* Bounds of the model.                                                    *)
(***************************************************************************)
\* rows per table where every handler runs, and where photos are uploaded
FullRows == 1
\* rows per table in the specifications of one part of the site
MaxRows == 2
\* last minute of the clock
MaxClock == 34
\* files in one upload request
MaxFiles == 2
\* characters of a stored photo list
MaxLen == 5

(***************************************************************************)
(* Configuration (main.py section 1) and literals of the code.             *)
(***************************************************************************)
SECRET_KEY == "dev-chave-local-troque-no-render"
ADMIN_USERNAME == "admin"
ADMIN_PASSWORD == "123456"
\* timedelta(minutes=30) of create_access_token
TOKEN_MINUTES == 30
\* SQL NULL of an integer column
NULL == 0
\* Python None of a string the code only copies
None == "None"
\* Python None (or the empty string) of a character sequence
NoPath == <<>>

UPLOAD_URL ==
    <<"/", "s", "t", "a", "t", "i", "c", "/", "u", "p", "l", "o", "a", "d", "s", "/">>
PLACEHOLDER ==
    UPLOAD_URL \o <<"p", "l", "a", "c", "e", "h", "o", "l", "d", "e", "r", ".", "p", "n", "g">>
DEFAULT_CAPA ==
    UPLOAD_URL \o <<"d", "e", "f", "a", "u", "l", "t", "_", "c", "a", "p", "a", ".", "j", "p", "g">>
IMAGE_PREFIX == <<"i", "m", "a", "g", "e", "/">>
TITULO_INICIAL == "Encontre seu Lar"
SUBTITULO_INICIAL == "As melhores oportunidades da região"
LOCAL_NAO_DEFINIDO == "Local não definido"
IMOVEL_DESCONHECIDO == "Imóvel desconhecido"
MAIL_CC == "imoveislitoralilhabela@gmail.com"

(***************************************************************************)
(* Python string operations on character sequences.                        *)
(***************************************************************************)
Whitespace == {" ", "\t", "\n"}

RECURSIVE lstrip(_)
lstrip(s) ==
    IF s = <<>> THEN s
    ELSE IF Head(s) \in Whitespace THEN lstrip(Tail(s)) ELSE s

RECURSIVE rstrip(_)
rstrip(s) ==
    IF s = <<>> THEN s
    ELSE IF s[Len(s)] \in Whitespace THEN rstrip(SubSeq(s, 1, Len(s) - 1)) ELSE s

\* str.strip()
strip(s) == rstrip(lstrip(s))

\* str.startswith(prefix)
startswith(s, prefix) ==
    /\ Len(s) >= Len(prefix)
    /\ SubSeq(s, 1, Len(prefix)) = prefix

\* str.replace(old, new) for one-character old and new
replace(s, old, new) == [i \in 1..Len(s) |-> IF s[i] = old THEN new ELSE s[i]]

\* str.split(sep) for a one-character sep: "" splits into [""]
RECURSIVE split(_, _)
split(s, sep) ==
    IF \A i \in 1..Len(s) : s[i] # sep THEN <<s>>
    ELSE LET k == CHOOSE i \in 1..Len(s) :
                      /\ s[i] = sep
                      /\ \A j \in 1..(i - 1) : s[j] # sep
         IN  <<SubSeq(s, 1, k - 1)>> \o split(SubSeq(s, k + 1, Len(s)), sep)

\* sep.join(parts) for a one-character sep
RECURSIVE join(_, _)
join(parts, sep) ==
    IF parts = <<>> THEN <<>>
    ELSE IF Len(parts) = 1 THEN parts[1]
    ELSE parts[1] \o <<sep>> \o join(Tail(parts), sep)

\* [p.strip() for p in parts if p.strip()]
RECURSIVE strip_parts(_)
strip_parts(parts) ==
    IF parts = <<>> THEN <<>>
    ELSE (IF strip(Head(parts)) # <<>> THEN <<strip(Head(parts))>> ELSE <<>>)
             \o strip_parts(Tail(parts))

(***************************************************************************)
(* main.py section 4: helpers.                                             *)
(***************************************************************************)
\* normalize_image_url prefixing "/" whatever the path starts with
normalize_image_url_always_prefix(path) ==
    IF path = NoPath THEN PLACEHOLDER ELSE <<"/">> \o strip(path)

normalize_image_url(path) ==
    IF path = NoPath THEN PLACEHOLDER
    ELSE LET p == strip(path)
         IN  IF startswith(p, <<"/">>) THEN p ELSE <<"/">> \o p

\* normalize_csv_images joining the references that normalize_image_url
\* prefixes whatever they start with
normalize_csv_images_always_prefix(csv) ==
    IF csv = NoPath THEN <<>>
    ELSE LET parts == strip_parts(split(csv, ","))
         IN  join([i \in 1..Len(parts) |-> normalize_image_url_always_prefix(parts[i])],
                  ",")

normalize_csv_images(csv) ==
    IF csv = NoPath THEN <<>>
    ELSE LET parts == strip_parts(split(csv, ","))
         IN  join([i \in 1..Len(parts) |-> normalize_image_url(parts[i])], ",")

\* file.filename.replace(" ", "_").replace("/", "_")
filename_seguro(filename) == replace(replace(filename, " ", "_"), "/", "_")

\* The files of the list that salvar_arquivos writes: those with a filename.
\* failAt is the position of the file whose write raises (0: none does): k
\* when open() raises, and nothing of file k is written; -k when open() has
\* created or truncated the file and copyfileobj raises.
RECURSIVE salvar_from(_, _, _)
salvar_from(files, i, failAt) ==
    IF i > Len(files) THEN [raised |-> FALSE, saved_paths |-> <<>>, written |-> <<>>]
    ELSE IF files[i].filename = <<>> THEN salvar_from(files, i + 1, failAt)
    ELSE IF i = failAt THEN [raised |-> TRUE, saved_paths |-> <<>>, written |-> <<>>]
    ELSE IF i = -failAt
    THEN [raised |-> TRUE, saved_paths |-> <<>>,
          written |-> <<[name |-> filename_seguro(files[i].filename), data |-> "truncated"]>>]
    ELSE LET rest == salvar_from(files, i + 1, failAt)
             nome == filename_seguro(files[i].filename)
         IN  [raised |-> rest.raised,
              saved_paths |-> <<UPLOAD_URL \o nome>> \o rest.saved_paths,
              written |-> <<[name |-> nome, data |-> files[i].data]>> \o rest.written]

\* salvar_arquivos swallowing the error of a write: it returns the paths of
\* the files written before it
salvar_arquivos_unraised(files, failAt) ==
    [salvar_from(files, 1, failAt) EXCEPT !.raised = FALSE]

salvar_arquivos(files, failAt) == salvar_from(files, 1, failAt)

\* The upload directory after the writes, in order (open(..., "wb") truncates).
RECURSIVE WriteAll(_, _)
WriteAll(d, written) ==
    IF written = <<>> THEN d
    ELSE WriteAll({f \in d : f.name # Head(written).name} \cup {Head(written)},
                  Tail(written))

(***************************************************************************)
(* State.                                                                  *)
(***************************************************************************)
VARIABLES
    started,      \* the process has run on_startup at least once
    clock,        \* datetime.utcnow(), in minutes
    cookie,       \* the access_token cookie the client presents
    admin_users,  \* table admin_users
    hero,         \* table hero
    lugares,      \* table lugares
    imoveis,      \* table imoveis
    contatos,     \* table contatos
    disk,         \* files of UPLOAD_DIR: name and content
    response,     \* the answer of the handler that ran in the last step, if one did
    mail,         \* the e-mails that handler delivered
    request,      \* what that handler was sent, where a property refers to it
    inflight      \* the session of each worker process that is handling a request

\* the worker processes that serve the site
Workers == {1, 2}

\* a worker that is handling no request: its session holds no object
NoSession == [pc |-> "idle", titulo |-> "", subtitulo |-> "", loaded |-> {}, hero |-> {}]

db == <<admin_users, hero, lugares, imoveis, contatos>>
vars == <<started, clock, cookie, admin_users, hero, lugares, imoveis, contatos,
          disk, response, mail, request, inflight>>

\* Integer primary key of the next inserted row (SQLite rowid: largest + 1).
NextId(table) ==
    IF table = {} THEN 1
    ELSE (CHOOSE r \in table : \A q \in table : q.id <= r.id).id + 1

\* query(...).first(): the row of lowest id, of a non-empty set of rows
first(rows) == CHOOSE r \in rows : \A q \in rows : r.id <= q.id

Answer(op, status, location, detail) ==
    [op |-> op, status |-> status, location |-> location, detail |-> detail]
NoAnswer == Answer("none", 0, <<>>, "")
NoRequest == [op |-> "none"]
RedirectResponse(op, location) == Answer(op, 303, location, "")
TemplateResponse(op, detail) == Answer(op, 200, <<>>, detail)
HTTPException(op, status, detail) == Answer(op, status, <<>>, detail)

(***************************************************************************)
(* main.py section 5: the session token and the admin gate.                *)
(***************************************************************************)
NoToken == [kind |-> "none", sub |-> None, exp |-> 0, key |-> ""]
MalformedToken == [kind |-> "malformed", sub |-> None, exp |-> 0, key |-> ""]
\* a well-formed token signed with another key, claiming the admin for ever
ForgedToken ==
    [kind |-> "jwt", sub |-> ADMIN_USERNAME, exp |-> MaxClock + TOKEN_MINUTES + 1,
     key |-> "outra-chave"]

\* create_access_token with a validity of one hour
create_access_token_hour(sub, now) ==
    [kind |-> "jwt", sub |-> sub, exp |-> now + 60, key |-> SECRET_KEY]

create_access_token(sub, now) ==
    [kind |-> "jwt", sub |-> sub, exp |-> now + TOKEN_MINUTES, key |-> SECRET_KEY]

\* decode_access_token without the expiry check
decode_access_token_no_expiry(token, now) ==
    IF token.kind = "jwt" /\ token.key = SECRET_KEY THEN token.sub ELSE None

\* jwt.decode raises JWTError on a malformed token, a bad signature and an
\* expiry in the past (exp < now)
decode_access_token(token, now) ==
    IF token.kind = "jwt" /\ token.key = SECRET_KEY /\ ~(token.exp < now)
    THEN token.sub
    ELSE None

\* check_admin answering an invalid token with 401 instead of a redirect
check_admin_unauthorized(op, token, now) ==
    IF token.kind = "none"
    THEN [ok |-> FALSE, username |-> None,
          response |-> Answer(op, 307, <<"/login">>, "")]
    ELSE IF decode_access_token(token, now) = None
    THEN [ok |-> FALSE, username |-> None,
          response |-> Answer(op, 401, <<>>, "Unauthorized")]
    ELSE [ok |-> TRUE, username |-> decode_access_token(token, now),
          response |-> Answer(op, 200, <<>>, "")]

check_admin(op, token, now) ==
    IF token.kind = "none"
    THEN [ok |-> FALSE, username |-> None,
          response |-> Answer(op, 307, <<"/login">>, "")]
    ELSE IF decode_access_token(token, now) = None
    THEN [ok |-> FALSE, username |-> None,
          response |-> Answer(op, 307, <<"/logout">>, "")]
    ELSE [ok |-> TRUE, username |-> decode_access_token(token, now),
          response |-> Answer(op, 200, <<>>, "")]

\* the seven File(default=[]) parameters of admin_add, all empty
NoFotos ==
    [fotos_fachada |-> <<>>, fotos_sala |-> <<>>, fotos_cozinha |-> <<>>,
     fotos_quartos |-> <<>>, fotos_banheiros |-> <<>>, fotos_lazer |-> <<>>,
     fotos_outros |-> <<>>]

\* fotos_fachada + fotos_sala + ... + fotos_outros
lista_arquivos(fotos) ==
    fotos.fotos_fachada \o fotos.fotos_sala \o fotos.fotos_cozinha \o fotos.fotos_quartos
        \o fotos.fotos_banheiros \o fotos.fotos_lazer \o fotos.fotos_outros

\* the handler never runs: the dependency raised
Refused(gate) ==
    /\ response' = gate.response
    /\ mail' = <<>>
    /\ request' = NoRequest
    /\ UNCHANGED <<started, clock, cookie, db, disk, inflight>>

\* pwd_context.hash / pwd_context.verify
pwd_hash(password, salt) == [scheme |-> "pbkdf2_sha256", salt |-> salt, secret |-> password]
pwd_verify(password, hashed) == hashed.scheme = "pbkdf2_sha256" /\ hashed.secret = password

(***************************************************************************)
(* main.py section 6: e-mail.  configured: SMTP_USER, SMTP_PASS and        *)
(* MAIL_FROM are set; accepted: the SMTP server took the message.          *)
(***************************************************************************)
send_email(to_email, subject, cc_email, configured, accepted) ==
    IF ~configured \/ ~accepted
    THEN [raised |-> TRUE, delivered |-> <<>>]
    ELSE [raised |-> FALSE,
          delivered |-> <<[to |-> to_email, subject |-> subject, cc |-> cc_email]>>]

(***************************************************************************)
(* main.py section 7: display projections.                                 *)
(***************************************************************************)
\* imovel.lugar: the related row, if any
lugar_of(imovel) == {l \in lugares : l.id = imovel.lugar_id}

imovel_to_dict(imovel) ==
    LET lugar_nome == IF lugar_of(imovel) # {}
                      THEN (CHOOSE l \in lugar_of(imovel) : TRUE).nome
                      ELSE <<LOCAL_NAO_DEFINIDO>>
        fotos_csv == normalize_csv_images(imovel.fotos)
        lista_fotos == IF fotos_csv # <<>> THEN strip_parts(split(fotos_csv, ","))
                       ELSE <<>>
        foto_capa == IF lista_fotos # <<>> THEN lista_fotos[1] ELSE PLACEHOLDER
    IN  [id |-> imovel.id, titulo |-> imovel.titulo, bairro |-> lugar_nome,
         lista_fotos |-> lista_fotos, foto_capa |-> foto_capa]

(***************************************************************************)
(* main.py section 8: startup.                                             *)
(***************************************************************************)
create_or_reset_admin_user(users, reset, salt) ==
    LET found == {u \in users : u.username = ADMIN_USERNAME}
        hashed_password == pwd_hash(ADMIN_PASSWORD, salt)
    IN  IF found = {}
        THEN users \cup {[id |-> NextId(users), username |-> ADMIN_USERNAME,
                          hashed_password |-> hashed_password]}
        ELSE IF reset
        THEN (users \ {first(found)})
                 \cup {[first(found) EXCEPT !.hashed_password = hashed_password]}
        ELSE users

\* ensure_hero inserting the default row without looking for one
ensure_hero_always(rows) ==
    rows \cup {[id |-> NextId(rows), titulo_capa |-> TITULO_INICIAL,
                subtitulo_capa |-> SUBTITULO_INICIAL, imagem_capa |-> PLACEHOLDER]}

ensure_hero(rows) ==
    IF rows = {}
    THEN {[id |-> NextId(rows), titulo_capa |-> TITULO_INICIAL,
           subtitulo_capa |-> SUBTITULO_INICIAL, imagem_capa |-> PLACEHOLDER]}
    ELSE rows

\* A start (or restart) of the process; reset is RESET_ADMIN_PASSWORD.
on_startup(reset, salt) ==
    /\ started' = TRUE
    /\ admin_users' = create_or_reset_admin_user(admin_users, reset, salt)
    /\ hero' = ensure_hero(hero)
    /\ response' = Answer("on_startup", 0, <<>>, "")
    /\ mail' = <<>>
    /\ request' = NoRequest
    /\ UNCHANGED <<clock, cookie, lugares, imoveis, contatos, disk, inflight>>

\* Time passes.
Tick(minutes) ==
    /\ clock + minutes <= MaxClock
    /\ clock' = clock + minutes
    /\ response' = NoAnswer
    /\ mail' = <<>>
    /\ request' = NoRequest
    /\ UNCHANGED <<started, cookie, db, disk, inflight>>

\* The client replaces its cookie by one it made up.
client_set_cookie(token) ==
    /\ cookie # token
    /\ cookie' = token
    /\ response' = NoAnswer
    /\ mail' = <<>>
    /\ request' = NoRequest
    /\ UNCHANGED <<started, clock, db, disk, inflight>>

Init ==
    /\ started = FALSE
    /\ clock = 0
    /\ cookie = NoToken
    /\ admin_users = {}
    /\ hero = {}
    /\ lugares = {}
    /\ imoveis = {}
    /\ contatos = {}
    /\ disk = {}
    /\ response = NoAnswer
    /\ mail = <<>>
    /\ request = NoRequest
    /\ inflight = [w \in Workers |-> NoSession]

(***************************************************************************)
(* main.py section 9: public routes.                                       *)
(***************************************************************************)
\* the title query(ImovelDB) without its filter would snapshot
titulo_imovel_unfiltered(imovel_id) ==
    IF imoveis # {} THEN first(imoveis).titulo ELSE IMOVEL_DESCONHECIDO

\* imovel.titulo if imovel else "Imóvel desconhecido"
titulo_imovel(imovel_id) ==
    LET found == {i \in imoveis : i.id = imovel_id}
    IN  IF found # {} THEN first(found).titulo ELSE IMOVEL_DESCONHECIDO

\* the answer if a failed send_email left the outer try block
resposta_contato_unguarded(form, raised) ==
    IF raised
    THEN HTTPException("enviar_contato", 500, "Erro ao enviar contato. Verifique os logs.")
    ELSE RedirectResponse("enviar_contato",
                          <<"/imovel/", form.imovel_id, "?ok=1&nome=", form.nome>>)

\* the answer after the two sends: a failed send is caught and printed
resposta_contato(form, raised) ==
    RedirectResponse("enviar_contato",
                     <<"/imovel/", form.imovel_id, "?ok=1&nome=", form.nome>>)

\* POST /contato/enviar.  configured, accepted1 and accepted2 say how the two
\* send_email calls end.
enviar_contato(cap, form, configured, accepted1, accepted2) ==
    /\ started
    /\ NextId(contatos) <= cap
    /\ LET novo_contato == [id |-> NextId(contatos),
                            imovel_id |-> form.imovel_id,
                            imovel_titulo |-> titulo_imovel(form.imovel_id),
                            nome |-> form.nome,
                            email |-> form.email,
                            telefone |-> form.telefone,
                            mensagem |-> form.mensagem,
                            data_envio |-> clock]
           to_admin == send_email(MAIL_CC, "Novo contato", None, configured, accepted1)
           to_cliente == IF to_admin.raised
                         THEN [raised |-> TRUE, delivered |-> <<>>]
                         ELSE send_email(form.email, "Recebemos sua mensagem", MAIL_CC,
                                         configured, accepted2)
       IN  /\ contatos' = contatos \cup {novo_contato}
           /\ mail' = to_admin.delivered \o to_cliente.delivered
           /\ request' = NoRequest
           /\ response' = resposta_contato(form, to_cliente.raised)
    /\ UNCHANGED <<started, clock, cookie, admin_users, hero, lugares, imoveis, disk, inflight>>

(***************************************************************************)
(* main.py section 10: admin panel, login, logout.                         *)
(***************************************************************************)
\* GET /admin: the changes it makes to the loaded rows are never committed
admin_panel ==
    /\ started
    /\ LET gate == check_admin("admin_panel", cookie, clock)
       IN  IF ~gate.ok THEN Refused(gate)
           ELSE /\ response' = TemplateResponse("admin_panel", gate.username)
                /\ mail' = <<>>
                /\ request' = NoRequest
                /\ UNCHANGED <<started, clock, cookie, db, disk, inflight>>

\* POST /login
login_post(username, password) ==
    /\ started
    /\ LET found == {u \in admin_users : u.username = username}
       IN  IF found # {} /\ pwd_verify(password, first(found).hashed_password)
           THEN /\ cookie' = create_access_token(first(found).username, clock)
                /\ response' = RedirectResponse("login_post", <<"/admin">>)
           ELSE /\ cookie' = cookie
                /\ response' = TemplateResponse("login_post", "Usuário ou senha inválidos.")
    /\ mail' = <<>>
    /\ request' = NoRequest
    /\ UNCHANGED <<started, clock, db, disk, inflight>>

\* GET /logout
logout ==
    /\ started
    /\ cookie' = NoToken
    /\ response' = RedirectResponse("logout", <<"/">>)
    /\ mail' = <<>>
    /\ request' = NoRequest
    /\ UNCHANGED <<started, clock, db, disk, inflight>>

(***************************************************************************)
(* main.py section 11: hero.                                               *)
(***************************************************************************)
\* Optional[UploadFile] that was not sent
NoFile == [filename |-> <<>>, content_type |-> <<>>, data |-> "none"]

\* file and file.filename and (file.content_type or "").startswith("image/")
is_image_upload(file) ==
    file.filename # <<>> /\ startswith(file.content_type, IMAGE_PREFIX)

\* the upload of one optional image: nothing is written unless it is one
salvar_imagem(file, failAt) ==
    IF is_image_upload(file) THEN salvar_arquivos(<<file>>, failAt)
    ELSE [raised |-> FALSE, saved_paths |-> <<>>, written |-> <<>>]

\* HeroDB(): a row of column defaults (database.py)
HeroDB_default(id) ==
    [id |-> id, titulo_capa |-> "Viva o Melhor do Litoral",
     subtitulo_capa |-> "Encontre seu refúgio na praia.", imagem_capa |-> DEFAULT_CAPA]

\* POST /admin/hero
update_hero(titulo, subtitulo, file_capa, failAt) ==
    /\ started
    /\ LET gate == check_admin("update_hero", cookie, clock)
           row == IF hero # {} THEN first(hero) ELSE HeroDB_default(NextId(hero))
           caminhos == salvar_imagem(file_capa, failAt)
           imagem == IF caminhos.saved_paths # <<>> THEN caminhos.saved_paths[1]
                     ELSE row.imagem_capa
           novo == [row EXCEPT !.titulo_capa = titulo,
                               !.subtitulo_capa = subtitulo,
                               !.imagem_capa = normalize_image_url(imagem)]
       IN  IF ~gate.ok THEN Refused(gate)
           ELSE /\ disk' = WriteAll(disk, caminhos.written)
                /\ mail' = <<>>
                /\ request' = [op |-> "update_hero", titulo |-> titulo, subtitulo |-> subtitulo,
                               file_capa |-> file_capa, failAt |-> failAt]
                /\ IF caminhos.raised
                   THEN /\ hero' = hero
                        /\ response' = HTTPException("update_hero", 500, "Erro ao salvar Hero.")
                   ELSE /\ hero' = (hero \ {row}) \cup {novo}
                        /\ response' = RedirectResponse("update_hero", <<"/admin">>)
                /\ UNCHANGED <<started, clock, cookie, admin_users, lugares, imoveis,
                               contatos, inflight>>

(***************************************************************************)
(* main.py section 12: lugares.                                            *)
(***************************************************************************)
\* POST /admin/lugar/adicionar.  The commit raises when the name is taken
\* (unique index of lugares.nome).
admin_add_lugar(cap, form, file_imagem, failAt) ==
    /\ started
    /\ NextId(lugares) <= cap
    /\ LET gate == check_admin("admin_add_lugar", cookie, clock)
           caminhos == salvar_imagem(file_imagem, failAt)
           caminho_imagem == IF caminhos.saved_paths # <<>> THEN caminhos.saved_paths[1]
                             ELSE NoPath
           novo_lugar == [id |-> NextId(lugares),
                          nome |-> strip(form.nome),
                          descricao |-> form.descricao,
                          bares_restaurantes |-> form.bares_restaurantes,
                          pontos_interesse |-> form.pontos_interesse,
                          imagem_principal |-> caminho_imagem]
           taken == \E l \in lugares : l.nome = novo_lugar.nome
       IN  IF ~gate.ok THEN Refused(gate)
           ELSE /\ disk' = WriteAll(disk, caminhos.written)
                /\ mail' = <<>>
                /\ request' = [op |-> "admin_add_lugar", file_imagem |-> file_imagem,
                               failAt |-> failAt]
                /\ IF caminhos.raised \/ taken
                   THEN /\ lugares' = lugares
                        /\ response' = HTTPException("admin_add_lugar", 500,
                                                     "Erro ao adicionar lugar.")
                   ELSE /\ lugares' = lugares \cup {novo_lugar}
                        /\ response' = RedirectResponse("admin_add_lugar",
                                                        <<"/admin?tab=lugares&lugar=ok">>)
                /\ UNCHANGED <<started, clock, cookie, admin_users, hero, imoveis,
                               contatos, inflight>>

\* POST /admin/lugar/editar/{id}.  The HTTPException(404) of an unknown id is
\* raised inside the try block, whose except Exception answers 500.
admin_edit_lugar(id, form, file_imagem, failAt) ==
    /\ started
    /\ LET gate == check_admin("admin_edit_lugar", cookie, clock)
           found == {l \in lugares : l.id = id}
           lugar == first(found)
           caminhos == IF found = {} THEN salvar_imagem(NoFile, 0)
                       ELSE salvar_imagem(file_imagem, failAt)
           imagem == IF caminhos.saved_paths # <<>> THEN caminhos.saved_paths[1]
                     ELSE lugar.imagem_principal
           novo == [lugar EXCEPT !.nome = strip(form.nome),
                                 !.descricao = form.descricao,
                                 !.bares_restaurantes = form.bares_restaurantes,
                                 !.pontos_interesse = form.pontos_interesse,
                                 !.imagem_principal = imagem]
           taken == \E l \in lugares : l.id # id /\ l.nome = strip(form.nome)
       IN  IF ~gate.ok THEN Refused(gate)
           ELSE /\ disk' = WriteAll(disk, caminhos.written)
                /\ mail' = <<>>
                /\ request' = [op |-> "admin_edit_lugar", id |-> id,
                               file_imagem |-> file_imagem, failAt |-> failAt]
                /\ IF found = {} \/ caminhos.raised \/ taken
                   THEN /\ lugares' = lugares
                        /\ response' = HTTPException("admin_edit_lugar", 500,
                                                     "Erro ao editar lugar.")
                   ELSE /\ lugares' = (lugares \ {lugar}) \cup {novo}
                        /\ response' = RedirectResponse("admin_edit_lugar",
                                                        <<"/admin?tab=lugares&edit=ok">>)
                /\ UNCHANGED <<started, clock, cookie, admin_users, hero, imoveis,
                               contatos, inflight>>

\* the rows of imoveis if the relationship cascaded the delete
imoveis_sem_lugar_cascade(rows, id) == {i \in rows : i.lugar_id # id}

\* LugarDB.imoveis is a relationship without delete cascade: when a lugar is
\* deleted, the unit of work sets lugar_id of the related rows to NULL
imoveis_sem_lugar(rows, id) ==
    {IF i.lugar_id = id THEN [i EXCEPT !.lugar_id = NULL] ELSE i : i \in rows}

\* GET /admin/lugar/deletar/{id}
admin_delete_lugar(id) ==
    /\ started
    /\ LET gate == check_admin("admin_delete_lugar", cookie, clock)
           found == {l \in lugares : l.id = id}
       IN  IF ~gate.ok THEN Refused(gate)
           ELSE /\ mail' = <<>>
                /\ request' = NoRequest
                /\ IF found = {}
                   THEN /\ UNCHANGED <<lugares, imoveis>>
                        /\ response' = RedirectResponse("admin_delete_lugar",
                                                        <<"/admin?tab=lugares&del=notfound">>)
                   ELSE /\ lugares' = lugares \ found
                        /\ imoveis' = imoveis_sem_lugar(imoveis, id)
                        /\ response' = RedirectResponse("admin_delete_lugar",
                                                        <<"/admin?tab=lugares&del=ok">>)
                /\ UNCHANGED <<started, clock, cookie, admin_users, hero, contatos, disk,
                               inflight>>

(***************************************************************************)
(* main.py section 13: imoveis.                                            *)
(***************************************************************************)
\* the photo list without the placeholder for an empty one
todas_fotos_as_saved(saved_paths) == saved_paths

\* if not todas_fotos: todas_fotos = [PLACEHOLDER]
todas_fotos(saved_paths) ==
    IF saved_paths = <<>> THEN <<PLACEHOLDER>> ELSE saved_paths

\* POST /admin/adicionar
admin_add(cap, form, fotos, failAt) ==
    /\ started
    /\ NextId(imoveis) <= cap
    /\ LET gate == check_admin("admin_add", cookie, clock)
           salvos == salvar_arquivos(lista_arquivos(fotos), failAt)
           novo == [id |-> NextId(imoveis),
                    titulo |-> form.titulo,
                    preco |-> form.preco,
                    lugar_id |-> form.lugar_id,
                    descricao |-> form.descricao,
                    quartos |-> form.quartos,
                    banheiros |-> form.banheiros,
                    area |-> form.area,
                    whatsapp |-> form.whatsapp,
                    tipo |-> form.tipo,
                    fotos |-> join(todas_fotos(salvos.saved_paths), ","),
                    bairro |-> ""]
       IN  IF ~gate.ok THEN Refused(gate)
           ELSE /\ disk' = WriteAll(disk, salvos.written)
                /\ mail' = <<>>
                /\ request' = [op |-> "admin_add", fotos |-> fotos, failAt |-> failAt]
                /\ IF salvos.raised
                   THEN /\ imoveis' = imoveis
                        /\ response' = HTTPException("admin_add", 500,
                                                     "Erro ao adicionar imóvel.")
                   ELSE /\ imoveis' = imoveis \cup {novo}
                        /\ response' = RedirectResponse("admin_add", <<"/admin?imovel=ok">>)
                /\ UNCHANGED <<started, clock, cookie, admin_users, hero, lugares,
                               contatos, inflight>>

\* GET /admin/deletar/{id}
admin_delete(id) ==
    /\ started
    /\ LET gate == check_admin("admin_delete", cookie, clock)
           found == {i \in imoveis : i.id = id}
       IN  IF ~gate.ok THEN Refused(gate)
           ELSE /\ mail' = <<>>
                /\ request' = NoRequest
                /\ IF found = {}
                   THEN /\ imoveis' = imoveis
                        /\ response' = RedirectResponse("admin_delete",
                                                        <<"/admin?del=notfound">>)
                   ELSE /\ imoveis' = imoveis \ found
                        /\ response' = RedirectResponse("admin_delete", <<"/admin?del=ok">>)
                /\ UNCHANGED <<started, clock, cookie, admin_users, hero, lugares,
                               contatos, disk, inflight>>

(***************************************************************************)
(* main.py section 14: inbox.                                              *)
(***************************************************************************)
\* GET /admin/apagar_mensagem/{contato_id}
admin_apagar_mensagem(contato_id) ==
    /\ started
    /\ LET gate == check_admin("admin_apagar_mensagem", cookie, clock)
           found == {c \in contatos : c.id = contato_id}
       IN  IF ~gate.ok THEN Refused(gate)
           ELSE /\ mail' = <<>>
                /\ request' = NoRequest
                /\ IF found = {}
                   THEN /\ contatos' = contatos
                        /\ response' = RedirectResponse("admin_apagar_mensagem",
                                                        <<"/admin?msg=notfound">>)
                   ELSE /\ contatos' = contatos \ found
                        /\ response' = RedirectResponse("admin_apagar_mensagem",
                                                        <<"/admin?msg=delok">>)
                /\ UNCHANGED <<started, clock, cookie, admin_users, hero, lugares,
                               imoveis, disk, inflight>>

\* the answer if a failed send_email left the handler
resposta_responder_unguarded(sent) ==
    IF sent.raised
    THEN HTTPException("responder_contato", 500, "Internal Server Error")
    ELSE RedirectResponse("responder_contato", <<"/admin?reply=ok">>)

\* the answer after the send: a failed send is caught, printed and reported
resposta_responder(sent) ==
    IF sent.raised
    THEN RedirectResponse("responder_contato", <<"/admin?reply=err">>)
    ELSE RedirectResponse("responder_contato", <<"/admin?reply=ok">>)

\* POST /admin/contato/responder/{contato_id}
responder_contato(contato_id, assunto, enviar_copia, configured, accepted) ==
    /\ started
    /\ LET gate == check_admin("responder_contato", cookie, clock)
           found == {c \in contatos : c.id = contato_id}
           cc == IF enviar_copia THEN MAIL_CC ELSE None
           sent == send_email(first(found).email, assunto, cc, configured, accepted)
       IN  IF ~gate.ok THEN Refused(gate)
           ELSE /\ request' = [op |-> "responder_contato", contato_id |-> contato_id]
                /\ IF found = {}
                   THEN /\ mail' = <<>>
                        /\ response' = HTTPException("responder_contato", 404,
                                                     "Contato não encontrado.")
                   ELSE /\ mail' = sent.delivered
                        /\ response' = resposta_responder(sent)
                /\ UNCHANGED <<started, clock, cookie, db, disk, inflight>>

(***************************************************************************)
(* Inputs of the requests.                                                 *)
(***************************************************************************)
IMAGE_PNG == IMAGE_PREFIX \o <<"p", "n", "g">>
TEXT_PLAIN == <<"t", "e", "x", "t", "/", "p", "l", "a", "i", "n">>

UploadFile(filename, content_type, data) ==
    [filename |-> filename, content_type |-> content_type, data |-> data]

\* the batches of a request whose files, in upload order, are files[i] sent in
\* category cats[i] (1: fachada ... 7: outros)
RECURSIVE batch(_, _, _, _)
batch(files, cats, c, i) ==
    IF i > Len(files) THEN <<>>
    ELSE (IF cats[i] = c THEN <<files[i]>> ELSE <<>>) \o batch(files, cats, c, i + 1)

Fotos(files, cats) ==
    [fotos_fachada |-> batch(files, cats, 1, 1), fotos_sala |-> batch(files, cats, 2, 1),
     fotos_cozinha |-> batch(files, cats, 3, 1), fotos_quartos |-> batch(files, cats, 4, 1),
     fotos_banheiros |-> batch(files, cats, 5, 1), fotos_lazer |-> batch(files, cats, 6, 1),
     fotos_outros |-> batch(files, cats, 7, 1)]

\* every request of at most MaxFiles files drawn from a set, in the categories cs
FotosFrom(fileSet, cs) ==
    UNION {{Fotos(files, cats) : files \in [1..n -> fileSet], cats \in [1..n -> cs]}
           : n \in 0..MaxFiles}

ImovelForm(titulo, lugar_id) ==
    [titulo |-> titulo, preco |-> "Consulte", lugar_id |-> lugar_id, descricao |-> "",
     quartos |-> 0, banheiros |-> 0, area |-> 0, whatsapp |-> "5512991709650",
     tipo |-> "Venda"]

LugarForm(nome) ==
    [nome |-> nome, descricao |-> "", bares_restaurantes |-> "", pontos_interesse |-> ""]

ContatoForm(imovel_id) ==
    [imovel_id |-> imovel_id, nome |-> "Ana", email |-> "a@x.com",
     telefone |-> "+55 12 91234-5678", mensagem |-> "Interessada"]

Foto_a == UploadFile(<<"a">>, IMAGE_PNG, "bytes1")

(***************************************************************************)
(* The whole site: every handler, with few inputs each.                    *)
(***************************************************************************)
Next ==
    \/ \E reset \in BOOLEAN : on_startup(reset, "salt1")
    \/ Tick(TOKEN_MINUTES + 1)
    \/ \E token \in {MalformedToken, ForgedToken} : client_set_cookie(token)
    \/ \E username \in {ADMIN_USERNAME, "root"}, password \in {ADMIN_PASSWORD, "senha"} :
           login_post(username, password)
    \/ logout
    \/ admin_panel
    \/ \E file \in {NoFile, Foto_a}, failAt \in 0..1 : update_hero("T", "S", file, failAt)
    \/ \E id \in 1..FullRows, configured \in BOOLEAN :
           enviar_contato(FullRows, ContatoForm(id), configured, TRUE, TRUE)
    \/ admin_add_lugar(FullRows, LugarForm(<<"L">>), NoFile, 0)
    \/ \E id \in 1..FullRows : admin_edit_lugar(id, LugarForm(<<"L">>), NoFile, 0)
    \/ \E id \in 1..FullRows : admin_delete_lugar(id)
    \/ admin_add(FullRows, ImovelForm("A", 1), NoFotos, 0)
    \/ \E id \in 1..FullRows : admin_delete(id)
    \/ \E id \in 1..FullRows : admin_apagar_mensagem(id)
    \/ \E id \in 1..FullRows, configured \in BOOLEAN :
           responder_contato(id, "Re", FALSE, configured, TRUE)

Spec == Init /\ [][Next]_vars

(***************************************************************************)
(* Properties of the whole site.                                           *)
(***************************************************************************)
\* the routes that depend on check_admin
AdminOps ==
    {"admin_panel", "update_hero", "admin_add_lugar", "admin_edit_lugar",
     "admin_delete_lugar", "admin_add", "admin_delete", "admin_apagar_mensagem",
     "responder_contato"}

\* the cookie is a token of this site's signature that has not expired
TokenValidates ==
    /\ cookie.kind = "jwt"
    /\ cookie.key = SECRET_KEY
    /\ clock <= cookie.exp

\* C1: a step of an admin handler whose request carries no token that validates
\* (absent, malformed, wrongly signed or expired) leaves the five tables and the
\* upload directory as they were and delivers no e-mail.
C1_AdminRequiresValidToken ==
    [][(response'.op \in AdminOps /\ ~TokenValidates)
           => (db' = db /\ disk' = disk /\ mail' = <<>>)]_vars

\* an admin handler has just refused an expired token of this site while the
\* tables hold a property
C1_Witness ==
    /\ response.op \in AdminOps
    /\ response.status = 307
    /\ cookie.kind = "jwt" /\ cookie.key = SECRET_KEY /\ cookie.exp < clock
    /\ imoveis # {}

NextAuth ==
    \/ \E reset \in BOOLEAN, salt \in {"salt1", "salt2"} : on_startup(reset, salt)
    \/ Tick(1)
    \/ \E token \in {MalformedToken, ForgedToken} : client_set_cookie(token)
    \/ \E username \in {ADMIN_USERNAME, "root"}, password \in {ADMIN_PASSWORD, "senha"} :
           login_post(username, password)
    \/ logout
    \/ admin_panel

SpecAuth == Init /\ [][NextAuth]_vars

\* C3: a login that succeeds at minute t sets a cookie that carries the username
\* and expires at t + 30; validation of a token of this site returns its
\* username while the clock has not passed the expiry, and afterwards returns
\* no identity, as for a malformed and a wrongly signed token, and the gate
\* answers all three alike.
C3_TokenWindow ==
    /\ [][(response'.op = "login_post" /\ response'.status = 303)
              => /\ cookie'.kind = "jwt" /\ cookie'.key = SECRET_KEY
                 /\ cookie'.sub = ADMIN_USERNAME
                 /\ cookie'.exp - clock = 30]_vars
    /\ []((cookie.kind = "jwt" /\ cookie.key = SECRET_KEY)
              => IF clock <= cookie.exp
                 THEN /\ decode_access_token(cookie, clock) = cookie.sub
                      /\ check_admin("admin_panel", cookie, clock).ok
                 ELSE /\ decode_access_token(cookie, clock) = None
                      /\ decode_access_token(MalformedToken, clock) = None
                      /\ decode_access_token(ForgedToken, clock) = None
                      /\ check_admin("admin_panel", cookie, clock)
                             = check_admin("admin_panel", MalformedToken, clock)
                      /\ check_admin("admin_panel", cookie, clock)
                             = check_admin("admin_panel", ForgedToken, clock))
    /\ []((response.op = "admin_panel" /\ cookie.kind = "jwt" /\ cookie.key = SECRET_KEY)
              => response.status = IF clock <= cookie.exp THEN 200 ELSE 307)

\* the dashboard has just refused the token of a login made 31 minutes before
C3_Witness ==
    /\ response.op = "admin_panel"
    /\ response.status = 307
    /\ cookie.kind = "jwt" /\ cookie.key = SECRET_KEY
    /\ clock - (cookie.exp - TOKEN_MINUTES) = TOKEN_MINUTES + 1

(***************************************************************************)
(* The inbox: contact submissions while properties come and go.            *)
(***************************************************************************)
NextContato ==
    \/ \E reset \in BOOLEAN : on_startup(reset, "salt1")
    \/ login_post(ADMIN_USERNAME, ADMIN_PASSWORD)
    \/ \E titulo \in {"Casa na Praia", "Chalé"} :
           admin_add(MaxRows, ImovelForm(titulo, 1), NoFotos, 0)
    \/ \E id \in 1..MaxRows : admin_delete(id)
    \/ \E id \in 1..(MaxRows + 1), configured, accepted1, accepted2 \in BOOLEAN :
           enviar_contato(MaxRows, ContatoForm(id), configured, accepted1, accepted2)
    \/ \E id \in 1..MaxRows : admin_apagar_mensagem(id)

SpecContato == Init /\ [][NextContato]_vars

\* C4: a contact submission adds exactly one message, for the submitted
\* property id, whose title snapshot is the title the property of that id had
\* when it was submitted, or the fallback when there was none; creating and
\* deleting properties leaves every stored message as it was.
C4_SnapshotOutlivesProperty ==
    [][/\ response'.op = "enviar_contato"
           => \E c \in contatos' \ contatos :
                  /\ contatos' = contatos \cup {c}
                  /\ c.imovel_id = response'.location[2]
                  /\ \A i \in imoveis : i.id = c.imovel_id => c.imovel_titulo = i.titulo
                  /\ (\A i \in imoveis : i.id # c.imovel_id)
                         => c.imovel_titulo = "Imóvel desconhecido"
       /\ response'.op \in {"admin_add", "admin_delete"} => contatos' = contatos]_vars

\* a message keeps the title of a property that was deleted and whose id now
\* belongs to a property of another title, beside a message with the fallback
C4_Witness ==
    /\ \E c \in contatos, i \in imoveis :
           /\ c.imovel_id = i.id
           /\ c.imovel_titulo = "Casa na Praia"
           /\ i.titulo = "Chalé"
    /\ \E c \in contatos : c.imovel_titulo = IMOVEL_DESCONHECIDO

\* C5: a contact submission in which a send_email call failed still adds its
\* message to the table and is answered with the 303 redirect to
\* /imovel/{id}?ok=1.
C5_MailFailureKeepsSubmission ==
    [][(response'.op = "enviar_contato" /\ Len(mail') < 2)
           => /\ response'.status = 303
              /\ Len(response'.location) = 4
              /\ response'.location[1] = "/imovel/"
              /\ response'.location[3] = "?ok=1&nome="
              /\ contatos \subseteq contatos'
              /\ Cardinality(contatos') = Cardinality(contatos) + 1
              /\ \E c \in contatos' \ contatos : c.imovel_id = response'.location[2]]_vars

\* a submission whose operator notification was delivered and whose
\* confirmation failed has just been stored and answered
C5_Witness ==
    /\ response.op = "enviar_contato"
    /\ Len(mail) = 1
    /\ response.status = 303
    /\ \E c \in contatos : c.id = NextId(contatos) - 1 /\ c.imovel_id = response.location[2]

(***************************************************************************)
(* Replies to the messages of the inbox.                                   *)
(***************************************************************************)
NextResposta ==
    \/ on_startup(FALSE, "salt1")
    \/ login_post(ADMIN_USERNAME, ADMIN_PASSWORD)
    \/ logout
    \/ \E email \in {"a@x.com", "b@x.com"} :
           enviar_contato(MaxRows, [ContatoForm(1) EXCEPT !.email = email], TRUE, TRUE, TRUE)
    \/ \E id \in 1..MaxRows : admin_apagar_mensagem(id)
    \/ \E id \in 1..(MaxRows + 1), enviar_copia, configured, accepted \in BOOLEAN :
           responder_contato(id, "Re: contato", enviar_copia, configured, accepted)

SpecResposta == Init /\ [][NextResposta]_vars

\* a reply has just been handled by responder_contato, past the gate
ReplyHandled == response.op = "responder_contato" /\ request.op = "responder_contato"

\* C13 as stated: for every message id, of a stored message or not, and whether
\* the send succeeds or fails, a reply leaves the contatos table as it was and
\* is answered with a result that reports success or failure, never with a
\* raised error.
C13_ReplyNeverRaises ==
    [][(response'.op = "responder_contato" /\ request'.op = "responder_contato")
           => /\ contatos' = contatos
              /\ response'.status = 303
              /\ response'.location \in {<<"/admin?reply=ok">>, <<"/admin?reply=err">>}]_vars

\* C13 amended: a reply changes no table; for the id of a stored message it is
\* answered with the redirect reply=ok when the e-mail was delivered and
\* reply=err when the send failed, never with a raised error; for an id that no
\* message has it raises the 404 error and sends nothing.
C13_ReplyRaisesOnlyNotFound ==
    [][(response'.op = "responder_contato" /\ request'.op = "responder_contato")
           => /\ db' = db
              /\ IF \E c \in contatos : c.id = request'.contato_id
                 THEN /\ response'.status = 303
                      /\ response'.location =
                             IF Len(mail') = 1 THEN <<"/admin?reply=ok">>
                             ELSE <<"/admin?reply=err">>
                      /\ \A i \in 1..Len(mail') :
                             \E c \in contatos :
                                 c.id = request'.contato_id /\ mail'[i].to = c.email
                 ELSE /\ response'.status = 404
                      /\ mail' = <<>>]_vars

\* a reply to the second of two stored messages, whose send failed, has just
\* been answered with reply=err
C13_Witness ==
    /\ ReplyHandled
    /\ response.location = <<"/admin?reply=err">>
    /\ mail = <<>>
    /\ Cardinality(contatos) = 2
    /\ request.contato_id = 2
    /\ \E c \in contatos : c.id = 2 /\ c.email = "b@x.com"

(***************************************************************************)
(* Locations and the properties that refer to them.                        *)
(***************************************************************************)
NextLugar ==
    \/ \E reset \in BOOLEAN : on_startup(reset, "salt1")
    \/ login_post(ADMIN_USERNAME, ADMIN_PASSWORD)
    \/ \E nome \in {<<"S", "u", "l">>, <<" ", "N", "o", "r", "t", "e">>} :
           admin_add_lugar(MaxRows, LugarForm(nome), NoFile, 0)
    \/ \E id \in 1..(MaxRows + 1), nome \in {<<"S", "u", "l">>, <<"L", "e", "s", "t", "e">>} :
           admin_edit_lugar(id, LugarForm(nome), NoFile, 0)
    \/ \E id \in 1..MaxRows : admin_delete_lugar(id)
    \/ \E lugar_id \in 1..MaxRows : admin_add(MaxRows, ImovelForm("Casa", lugar_id), NoFotos, 0)
    \/ \E id \in 1..MaxRows : admin_delete(id)

SpecLugar == Init /\ [][NextLugar]_vars

\* C6: a step that deletes a location is answered with the success redirect
\* and deletes no property; every property that referred to the location is
\* kept, unchanged but for its detached reference, and a property without a
\* location reference is displayed with "Local não definido".
C6_DeleteLugarDetaches ==
    /\ [][(response'.op = "admin_delete_lugar" /\ lugares' # lugares)
              => /\ response'.status = 303
                 /\ response'.location = <<"/admin?tab=lugares&del=ok">>
                 /\ Cardinality(imoveis') = Cardinality(imoveis)
                 /\ \A i \in imoveis :
                        IF \E l \in lugares \ lugares' : l.id = i.lugar_id
                        THEN [i EXCEPT !.lugar_id = 0] \in imoveis'
                        ELSE i \in imoveis']_vars
    /\ [](\A i \in imoveis :
              i.lugar_id = 0 => imovel_to_dict(i).bairro = <<"Local não definido">>)

\* a location that two properties referred to has just been deleted, another
\* location remains, and both properties are stored without a location
C6_Witness ==
    /\ response.op = "admin_delete_lugar"
    /\ response.status = 303
    /\ lugares # {}
    /\ Cardinality({i \in imoveis : i.lugar_id = NULL}) = 2
    /\ \A i \in imoveis : imovel_to_dict(i).bairro = <<LOCAL_NAO_DEFINIDO>>

\* C12: editing a location with an id that no location has is answered with
\* 404, not with the 500 of a storage failure, and leaves every location as it
\* was.
C12_EditUnknownLugarNotFound ==
    [][(/\ response'.op = "admin_edit_lugar"
        /\ request'.op = "admin_edit_lugar"
        /\ \A l \in lugares : l.id # request'.id)
           => /\ response'.status = 404
              /\ response'.status # 500
              /\ lugares' = lugares]_vars

\* an edit of an id that no location has was just answered while two
\* locations are stored
C12_Reached ==
    /\ response.op = "admin_edit_lugar"
    /\ request.op = "admin_edit_lugar"
    /\ Cardinality(lugares) = 2
    /\ \A l \in lugares : l.id # request.id

(***************************************************************************)
(* The hero banner.                                                        *)
(***************************************************************************)
HeroFiles ==
    {NoFile,
     Foto_a,
     UploadFile(<<"b", "\t">>, IMAGE_PNG, "bytes2"),
     UploadFile(<<"c">>, TEXT_PLAIN, "bytes3"),
     UploadFile(<<>>, IMAGE_PNG, "bytes4")}

NextHero ==
    \/ \E reset \in BOOLEAN : on_startup(reset, "salt1")
    \/ login_post(ADMIN_USERNAME, ADMIN_PASSWORD)
    \/ \E titulo \in {"T1", "T2"}, subtitulo \in {"S1", "S2"}, file \in HeroFiles,
          failAt \in 0..1 :
           update_hero(titulo, subtitulo, file, failAt)

SpecHero == Init /\ [][NextHero]_vars

\* C7: a hero update that carries no image (no file part, a part without a
\* file name, or a part whose content type is not an image type) leaves the
\* stored cover image reference exactly as it was and stores the title and the
\* subtitle of this request in the one hero row.
C7_HeroUpdateKeepsImage ==
    [][(/\ response'.op = "update_hero"
        /\ request'.op = "update_hero"
        /\ \/ request'.file_capa.filename = <<>>
           \/ ~startswith(request'.file_capa.content_type, <<"i", "m", "a", "g", "e", "/">>))
           => /\ response'.status = 303
              /\ Cardinality(hero') = 1
              /\ \A old \in hero, new \in hero' :
                     /\ new.imagem_capa = old.imagem_capa
                     /\ new.titulo_capa = request'.titulo
                     /\ new.subtitulo_capa = request'.subtitulo]_vars

\* an update without an image has just set the second title over a cover image
\* that an earlier update had uploaded
C7_Witness ==
    /\ response.op = "update_hero"
    /\ request.op = "update_hero"
    /\ request.file_capa = NoFile
    /\ \E h \in hero :
           /\ h.titulo_capa = "T2"
           /\ h.subtitulo_capa = "S1"
           /\ h.imagem_capa = UPLOAD_URL \o <<"b">>

(***************************************************************************)
(* Hero updates of two worker processes, statement by statement.  The body *)
(* of update_hero has no await, so one process runs it whole; the steps of *)
(* two processes on the same database file interleave.                     *)
(***************************************************************************)
\* db.commit() of a session holding the object obj that was loaded as loaded:
\* the unit of work compares each attribute with the value it loaded and
\* emits UPDATE hero SET ... WHERE id = ... for the columns that differ
orm_update(row, loaded, obj) ==
    [row EXCEPT !.titulo_capa = IF obj.titulo_capa # loaded.titulo_capa
                                THEN obj.titulo_capa ELSE row.titulo_capa,
                !.subtitulo_capa = IF obj.subtitulo_capa # loaded.subtitulo_capa
                                   THEN obj.subtitulo_capa ELSE row.subtitulo_capa,
                !.imagem_capa = IF obj.imagem_capa # loaded.imagem_capa
                                THEN obj.imagem_capa ELSE row.imagem_capa]

\* POST /admin/hero without a file, up to hero = db.query(HeroDB).first()
update_hero_query(w, titulo, subtitulo) ==
    /\ started
    /\ hero # {}
    /\ inflight[w].pc = "idle"
    /\ LET gate == check_admin("update_hero", cookie, clock)
       IN  IF ~gate.ok THEN Refused(gate)
           ELSE /\ inflight' = [inflight EXCEPT ![w] =
                                    [pc |-> "assign", titulo |-> titulo,
                                     subtitulo |-> subtitulo, loaded |-> {first(hero)},
                                     hero |-> {first(hero)}]]
                /\ response' = NoAnswer
                /\ mail' = <<>>
                /\ request' = NoRequest
                /\ UNCHANGED <<started, clock, cookie, db, disk>>

\* hero.titulo_capa = titulo ... hero.imagem_capa = normalize_image_url(...)
update_hero_assign(w) ==
    /\ inflight[w].pc = "assign"
    /\ inflight' = [inflight EXCEPT ![w].pc = "commit",
                                    ![w].hero =
                                        {[h EXCEPT !.titulo_capa = inflight[w].titulo,
                                                   !.subtitulo_capa = inflight[w].subtitulo,
                                                   !.imagem_capa =
                                                       normalize_image_url(h.imagem_capa)]
                                         : h \in inflight[w].hero}]
    /\ response' = NoAnswer
    /\ mail' = <<>>
    /\ request' = NoRequest
    /\ UNCHANGED <<started, clock, cookie, db, disk>>

\* db.commit() and the answer
update_hero_commit(w) ==
    /\ inflight[w].pc = "commit"
    /\ LET loaded == first(inflight[w].loaded)
           obj == first(inflight[w].hero)
       IN  hero' = {IF h.id = loaded.id THEN orm_update(h, loaded, obj) ELSE h : h \in hero}
    /\ inflight' = [inflight EXCEPT ![w] = NoSession]
    /\ response' = RedirectResponse("update_hero", <<"/admin">>)
    /\ mail' = <<>>
    /\ request' = [op |-> "update_hero", titulo |-> inflight[w].titulo,
                   subtitulo |-> inflight[w].subtitulo, file_capa |-> NoFile, failAt |-> 0]
    /\ UNCHANGED <<started, clock, cookie, admin_users, lugares, imoveis, contatos, disk>>

NextHeroRace ==
    \/ on_startup(FALSE, "salt1")
    \/ login_post(ADMIN_USERNAME, ADMIN_PASSWORD)
    \/ \E w \in Workers, titulo \in {TITULO_INICIAL, "T1"},
          subtitulo \in {SUBTITULO_INICIAL, "S1"} :
           update_hero_query(w, titulo, subtitulo)
    \/ \E w \in Workers : update_hero_assign(w)
    \/ \E w \in Workers : update_hero_commit(w)

SpecHeroRace == Init /\ [][NextHeroRace]_vars

\* C14: when the hero updates of two workers interleave, whatever the order of
\* their steps, after the commit of the last one the one hero row holds the
\* title and the subtitle of the request that committed last, never the title
\* of one request with the subtitle of the other.
C14_LastWriterWins ==
    (/\ response.op = "update_hero"
     /\ request.op = "update_hero"
     /\ response.status = 303
     /\ \A w \in Workers : inflight[w].pc = "idle")
        => /\ Cardinality(hero) = 1
           /\ \A h \in hero :
                  /\ h.titulo_capa = request.titulo
                  /\ h.subtitulo_capa = request.subtitulo

\* two updates that read the same row have both committed
C14_Reached ==
    /\ response.op = "update_hero"
    /\ request.op = "update_hero"
    /\ \A w \in Workers : inflight[w].pc = "idle"
    /\ request.titulo = TITULO_INICIAL
    /\ request.subtitulo = "S1"
    /\ \E h \in hero : h.titulo_capa = "T1" /\ h.subtitulo_capa = "S1"

(***************************************************************************)
(* Property creation with photo uploads.                                   *)
(***************************************************************************)
ImovelFiles ==
    {UploadFile(<<"s", " ", "1">>, IMAGE_PNG, "bytes1"),
     UploadFile(<<"b", ",", "c">>, IMAGE_PNG, "bytes2"),
     UploadFile(<<>>, IMAGE_PNG, "bytes3")}

NextImovel ==
    \/ \E reset \in BOOLEAN : on_startup(reset, "salt1")
    \/ login_post(ADMIN_USERNAME, ADMIN_PASSWORD)
    \/ \E fotos \in FotosFrom(ImovelFiles, {1, 7}), failAt \in 0..MaxFiles :
           admin_add(FullRows, ImovelForm("Casa", 1), fotos, failAt)
    \/ \E id \in 1..FullRows : admin_delete(id)

SpecImovel == Init /\ [][NextImovel]_vars

\* the row the last insert into a table added
newest(rows) == CHOOSE r \in rows : r.id = NextId(rows) - 1

\* admin_add has just handled a request that passed the gate
AddHandled == response.op = "admin_add" /\ request.op = "admin_add"

\* the request carried at least one file part with a file name
SomeFileNamed ==
    \E k \in DOMAIN request.fotos :
        \E i \in 1..Len(request.fotos[k]) : request.fotos[k][i].filename # <<>>

\* C8: creating a property with no uploaded file (every batch empty or holding
\* only parts without a file name) succeeds and stores the placeholder
\* reference, not the empty string, as its photo field, and the placeholder is
\* the cover photo of its display projection.
C8_NoFilesStoresPlaceholder ==
    (AddHandled /\ ~SomeFileNamed)
        => /\ response.status = 303
           /\ imoveis # {}
           /\ newest(imoveis).fotos = PLACEHOLDER
           /\ newest(imoveis).fotos # <<>>
           /\ imovel_to_dict(newest(imoveis)).foto_capa = PLACEHOLDER
           /\ imovel_to_dict(newest(imoveis)).lista_fotos = <<PLACEHOLDER>>

\* a property has just been created from a request whose only parts had no
\* file name
C8_Witness ==
    /\ AddHandled
    /\ ~SomeFileNamed
    /\ request.fotos # NoFotos
    /\ response.status = 303
    /\ newest(imoveis).fotos = PLACEHOLDER

\* the references the Media Store returns for the files of one batch
refs(files) == salvar_arquivos(files, 0).saved_paths

\* C9: the photo list of the display projection of a property created with
\* uploaded files is the sequence of the references stored for the files, by
\* category (fachada, sala, cozinha, quartos, banheiros, lazer, outros) and
\* upload order, and its cover photo is the first of them.
C9_PhotoListIsStoredReferences ==
    (AddHandled /\ SomeFileNamed /\ response.status = 303)
        => LET stored == refs(request.fotos.fotos_fachada) \o refs(request.fotos.fotos_sala)
                             \o refs(request.fotos.fotos_cozinha)
                             \o refs(request.fotos.fotos_quartos)
                             \o refs(request.fotos.fotos_banheiros)
                             \o refs(request.fotos.fotos_lazer)
                             \o refs(request.fotos.fotos_outros)
           IN  /\ imovel_to_dict(newest(imoveis)).lista_fotos = stored
               /\ imovel_to_dict(newest(imoveis)).foto_capa = stored[1]

(***************************************************************************)
(* The photo list of a stored row, whatever text the column holds.         *)
(***************************************************************************)
\* the characters of a stored photo list that the code tells apart: a
\* separator, a blank, a slash and any other character
CsvChars == {",", " ", "/", "a"}

CsvStrings == UNION {[1..n -> CsvChars] : n \in 0..MaxLen}

\* a row of imoveis whose fotos column holds csv
ImovelDB(csv) ==
    [id |-> 1, titulo |-> "Casa", preco |-> "Consulte", lugar_id |-> NULL,
     descricao |-> "", quartos |-> 0, banheiros |-> 0, area |-> 0,
     whatsapp |-> "5512991709650", tipo |-> "Venda", fotos |-> csv, bairro |-> ""]

\* a photo list is about to be read: csv is the stored text, out the text
\* after the calls of normalize_csv_images made so far
InitCsv ==
    /\ started = FALSE
    /\ clock = 0
    /\ cookie = NoToken
    /\ admin_users = {}
    /\ hero = {}
    /\ lugares = {}
    /\ imoveis = {}
    /\ contatos = {}
    /\ disk = {}
    /\ response = NoAnswer
    /\ mail = <<>>
    /\ \E csv \in CsvStrings :
           request = [op |-> "normalize_csv_images", csv |-> csv, out |-> csv, calls |-> 0]
    /\ inflight = [w \in Workers |-> NoSession]

\* one more call of normalize_csv_images, on the result of the last one
call_normalize_csv_images ==
    /\ request.op = "normalize_csv_images"
    /\ request.calls < 2
    /\ request' = [request EXCEPT !.out = normalize_csv_images(request.out),
                                  !.calls = request.calls + 1]
    /\ response' = Answer("normalize_csv_images", 0, <<>>, "")
    /\ UNCHANGED <<started, clock, cookie, db, disk, mail, inflight>>

NextCsv == call_normalize_csv_images

SpecCsv == InitCsv /\ [][NextCsv]_vars

\* C11: for every stored photo list x, decoding it (split on the comma, trim,
\* drop the empty entries, normalize each reference), encoding the result and
\* decoding again gives the decoding of x, and normalize_csv_images applied to
\* its own result returns that result.
C11_NormalizeCsvIdempotent ==
    /\ [](request.op = "normalize_csv_images"
              => LET decode(x) == imovel_to_dict(ImovelDB(x)).lista_fotos
                     encode(l) == join(l, ",")
                     x == request.csv
                 IN  /\ decode(encode(decode(x))) = decode(x)
                     /\ normalize_csv_images(normalize_csv_images(x))
                            = normalize_csv_images(x)
                     /\ encode(decode(x)) = normalize_csv_images(x))
    /\ [][(request.op = "normalize_csv_images" /\ request.calls >= 1
               /\ request'.op = "normalize_csv_images")
              => request'.out = request.out]_vars

\* a list with a blank before a reference without its slash, an empty entry
\* and a bare slash has been normalized twice
C11_Witness ==
    /\ request.op = "normalize_csv_images"
    /\ request.calls = 2
    /\ request.csv = <<" ", "a", ",", ",", "/">>
    /\ request.out = <<"/", "a", ",", "/">>

(***************************************************************************)
(* Uploads of every operation that stores files, with writes that fail.    *)
(***************************************************************************)
\* two files whose names are the same after filename_seguro
Foto_a_b == UploadFile(<<"a", " ", "b">>, IMAGE_PNG, "bytes1")
Foto_a__b == UploadFile(<<"a", "_", "b">>, IMAGE_PNG, "bytes2")

UploadFiles == {Foto_a_b, Foto_a__b}

\* requests of one file, and of a file after Foto_a, in the batch fachada
UploadFotos ==
    {Fotos(<<f>>, <<1>>) : f \in UploadFiles}
        \cup {Fotos(<<Foto_a, f>>, <<1, 1>>) : f \in UploadFiles}

NextUpload ==
    \/ on_startup(FALSE, "salt1")
    \/ login_post(ADMIN_USERNAME, ADMIN_PASSWORD)
    \/ \E file \in UploadFiles \cup {NoFile}, failAt \in -1..1 :
           update_hero("T1", "S1", file, failAt)
    \/ \E file \in UploadFiles \cup {NoFile}, failAt \in -1..1 :
           admin_add_lugar(FullRows, LugarForm(<<"S", "u", "l">>), file, failAt)
    \/ \E id \in 1..FullRows, file \in UploadFiles \cup {NoFile}, failAt \in -1..1 :
           admin_edit_lugar(id, LugarForm(<<"L", "e", "s", "t", "e">>), file, failAt)
    \/ \E fotos \in UploadFotos, failAt \in -2..2 :
           admin_add(FullRows, ImovelForm("Casa", 1), fotos, failAt)

SpecUpload == Init /\ [][NextUpload]_vars

\* the files of the request that the handler hands to salvar_arquivos
FilesToSave(req) ==
    IF req.op = "admin_add" THEN lista_arquivos(req.fotos)
    ELSE IF req.op = "update_hero"
    THEN (IF is_image_upload(req.file_capa) THEN <<req.file_capa>> ELSE <<>>)
    ELSE IF req.op \in {"admin_add_lugar", "admin_edit_lugar"}
    THEN (IF is_image_upload(req.file_imagem) THEN <<req.file_imagem>> ELSE <<>>)
    ELSE <<>>

\* the write of one of the files of the request fails, at open() or after it
WriteFails(req) ==
    /\ req.op \in {"admin_add", "update_hero", "admin_add_lugar", "admin_edit_lugar"}
    /\ \E k \in 1..Len(FilesToSave(req)) :
           /\ req.failAt \in {k, -k}
           /\ FilesToSave(req)[k].filename # <<>>

\* the references to uploaded files that the rows of the tables store
StoredRefs ==
    UNION {{imovel_to_dict(i).lista_fotos[k] : k \in 1..Len(imovel_to_dict(i).lista_fotos)}
           : i \in imoveis}
        \cup {l.imagem_principal : l \in {r \in lugares : r.imagem_principal # NoPath}}
        \cup {h.imagem_capa : h \in hero}

\* the static images of the site that are no uploads
StaticImages == {PLACEHOLDER, DEFAULT_CAPA}

\* C15: when the write of an uploaded file fails in admin_add, admin_add_lugar,
\* admin_edit_lugar or update_hero, the request is answered with status 500 and
\* the five tables are exactly as before the request; and no row ever stores a
\* reference to an upload that was not written to the upload directory.
C15_FailedWriteAborts ==
    /\ [][(/\ response'.op = request'.op
           /\ WriteFails(request')
           /\ request'.op = "admin_edit_lugar" => \E l \in lugares : l.id = request'.id)
              => /\ response'.status = 500
                 /\ db' = db]_vars
    /\ [](\A ref \in StoredRefs \ StaticImages :
              \E f \in disk : ref = UPLOAD_URL \o f.name)

\* a property creation whose second write failed half way, after the first
\* file was written, has just been answered with 500, beside a stored location
\* and no stored property
C15_Witness ==
    /\ response.op = "admin_add"
    /\ request.op = "admin_add"
    /\ request.failAt = -2
    /\ response.status = 500
    /\ imoveis = {}
    /\ lugares # {}
    /\ \E f \in disk : f.name = <<"a">> /\ f.data = "bytes1"
    /\ \E f \in disk : f.name = <<"a", "_", "b">> /\ f.data = "truncated"

\* the bytes that a reference resolves to in the upload directory
Content(dir, ref) == {f.data : f \in {g \in dir : UPLOAD_URL \o g.name = ref}}

\* the references of the photo list of a property
RefsImovel(i) ==
    {imovel_to_dict(i).lista_fotos[k] : k \in 1..Len(imovel_to_dict(i).lista_fotos)}

\* C16: a reference to an upload stored in a row of imoveis, lugares or hero
\* resolves to the same bytes after every step of another operation as before
\* it: no later upload, under a name that is the same after filename_seguro,
\* changes what the reference of an earlier row resolves to.
C16_StoredReferencesKeepTheirBytes ==
    [][/\ \A i \in imoveis \cap imoveis' :
              \A ref \in RefsImovel(i) \ StaticImages :
                  Content(disk', ref) = Content(disk, ref)
       /\ \A l \in lugares \cap lugares' :
              (/\ l.imagem_principal \notin {NoPath} \cup StaticImages
               /\ ~(response'.op = "admin_edit_lugar" /\ request'.op = "admin_edit_lugar"
                        /\ request'.id = l.id))
                  => Content(disk', l.imagem_principal) = Content(disk, l.imagem_principal)
       /\ \A h \in hero \cap hero' :
              (h.imagem_capa \notin StaticImages /\ response'.op # "update_hero")
                  => Content(disk', h.imagem_capa) = Content(disk, h.imagem_capa)]_vars

\* a hero update has just written the bytes of its file "a_b" under the name
\* that the photo of a stored property refers to
C16_Reached ==
    /\ response.op = "update_hero"
    /\ request.op = "update_hero"
    /\ response.status = 303
    /\ request.file_capa = Foto_a__b
    /\ \E i \in imoveis : UPLOAD_URL \o <<"a", "_", "b">> \in RefsImovel(i)
    /\ Content(disk, UPLOAD_URL \o <<"a", "_", "b">>) = {"bytes2"}

====
